---- MODULE Spec2Model ----
(***************************************************************************)
(* String interner (symbol table), keyword symbols and identifiers of      *)
(* crates/interface/src/symbol.rs.                                         *)
(*                                                                         *)
(* A Symbol is its u32 index.  An Option is a set with at most one element *)
(* (None = {}, Some(x) = {x}).  Strings are TLA+ strings; decimal          *)
(* formatting is computed digit by digit (to_string).                      *)
(***************************************************************************)
EXTENDS Integers, Sequences, FiniteSets

VARIABLES
    init,      \* the slice handed to Interner::prefill
    strings,   \* InternerInner.strings: the FxIndexSet, in insertion order
    arena,     \* InternerInner.arena: the strings copied by alloc_str
    op,        \* the last call: [name, arg, ret], and for a get the call
               \* the symbol came from (src)
    panicked,  \* an assert!/unwrap() failed: the program has aborted
    issued,    \* history: every <<text, handle>> an intern call returned
    idents,    \* the identifiers built so far, each with the text it came from
    other,     \* the InternerInner of a second interner
    threads    \* per thread: the call it is in and where ([pc, name, arg, ret])

vars == <<init, strings, arena, op, panicked, issued, idents, other, threads>>

(***************************************************************************)
(* Bounds of the model.                                                    *)
(***************************************************************************)
MaxInit == 3

MaxNew == 2

MaxInteger == 10

MaxNeg == 1

MaxSpan == 2

MaxIdents == 2

MaxThreads == 2

(***************************************************************************)
(* The symbols! table: keywords in declaration order, grouped as the       *)
(* comments of the declaration group them.                                 *)
(***************************************************************************)
KwSolidity ==
    <<
    "abstract", "anonymous", "as", "assembly", "break", "calldata", "catch",
    "constant", "constructor", "continue", "contract", "delete", "do",
    "else", "emit", "enum", "event", "external", "fallback", "for",
    "function", "hex", "if", "immutable", "import", "indexed", "interface",
    "internal", "is", "library", "mapping", "memory", "modifier", "new",
    "override", "payable", "pragma", "private", "public", "pure", "receive",
    "return", "returns", "storage", "struct", "throw", "try", "type",
    "unchecked", "unicode", "using", "view", "virtual", "while"
    >>

KwTypes ==
    <<
    "int", "int8", "int16", "int24", "int32", "int40", "int48", "int56",
    "int64", "int72", "int80", "int88", "int96", "int104", "int112",
    "int120", "int128", "int136", "int144", "int152", "int160", "int168",
    "int176", "int184", "int192", "int200", "int208", "int216", "int224",
    "int232", "int240", "int248", "int256", "uint", "uint8", "uint16",
    "uint24", "uint32", "uint40", "uint48", "uint56", "uint64", "uint72",
    "uint80", "uint88", "uint96", "uint104", "uint112", "uint120", "uint128",
    "uint136", "uint144", "uint152", "uint160", "uint168", "uint176",
    "uint184", "uint192", "uint200", "uint208", "uint216", "uint224",
    "uint232", "uint240", "uint248", "uint256", "bytes", "bytes1", "bytes2",
    "bytes3", "bytes4", "bytes5", "bytes6", "bytes7", "bytes8", "bytes9",
    "bytes10", "bytes11", "bytes12", "bytes13", "bytes14", "bytes15",
    "bytes16", "bytes17", "bytes18", "bytes19", "bytes20", "bytes21",
    "bytes22", "bytes23", "bytes24", "bytes25", "bytes26", "bytes27",
    "bytes28", "bytes29", "bytes30", "bytes31", "bytes32", "string",
    "address", "bool", "fixed", "ufixed"
    >>

KwSubdenominations ==
    <<
    "wei", "gwei", "ether", "seconds", "minutes", "hours", "days", "weeks",
    "years"
    >>

KwLiterals ==
    <<
    "false", "true"
    >>

KwReserved ==
    <<
    "after", "alias", "apply", "auto", "byte", "case", "copyof", "default",
    "define", "final", "implements", "in", "inline", "let", "macro", "match",
    "mutable", "null", "of", "partial", "promise", "reference",
    "relocatable", "sealed", "sizeof", "static", "supports", "switch",
    "typedef", "typeof", "var"
    >>

KwYul ==
    <<
    "leave", "revert"
    >>

KwYulBuiltins ==
    <<
    "add", "addmod", "and", "balance", "basefee", "blockhash", "call",
    "callcode", "calldatacopy", "calldataload", "calldatasize", "caller",
    "callvalue", "chainid", "coinbase", "create", "create2", "delegatecall",
    "difficulty", "div", "eq", "exp", "extcodecopy", "extcodehash",
    "extcodesize", "gas", "gaslimit", "gasprice", "gt", "invalid", "iszero",
    "keccak256", "log0", "log1", "log2", "log3", "log4", "lt", "mload",
    "mod", "msize", "mstore", "mstore8", "mul", "mulmod", "not", "number",
    "or", "origin", "pop", "prevrandao", "returndatacopy", "returndatasize",
    "sar", "sdiv", "selfbalance", "selfdestruct", "sgt", "shl", "shr",
    "signextend", "sload", "slt", "smod", "sstore", "staticcall", "stop",
    "sub", "timestamp", "xor"
    >>

KwExperimental ==
    <<
    "class", "instantiation", "Integer", "itself", "static_assert",
    "__builtin"
    >>

Symbols ==
    <<
    "X", "abicoder", "error", "experimental", "from", "global", "solidity",
    "_", "x"
    >>

Keywords ==
    KwSolidity \o KwTypes \o KwSubdenominations \o KwLiterals \o KwReserved
        \o KwYul \o KwYulBuiltins \o KwExperimental

\* "0", "1", ..., "9": the digit symbols that follow the listed ones.
Digits ==
    <<"0", "1", "2", "3", "4", "5", "6", "7", "8", "9">>

\* The initial symbols of a session's interner.
Fresh ==
    Keywords \o Symbols \o Digits

SYMBOL_DIGITS_BASE ==
    Len(Keywords) + Len(Symbols)

PREINTERNED_SYMBOLS_COUNT ==
    Len(Fresh)

(***************************************************************************)
(* Option, and the FxIndexSet operations the interner calls.               *)
(***************************************************************************)
Range(s) ==
    {s[i] : i \in 1..Len(s)}

unwrap(o) ==
    CHOOSE x \in o : TRUE

\* IndexSet::get_index_of: the index of the value, if present.
get_index_of(set, value) ==
    {i - 1 : i \in {j \in 1..Len(set) : set[j] = value}}

\* IndexSet::get_index: the value at the index, if in range.
get_index(set, index) ==
    IF index >= 0 /\ index < Len(set) THEN {set[index + 1]} ELSE {}

\* IndexSet::insert_full: appends an absent value; (index, is_new).
insert_full(set, value) ==
    LET found == get_index_of(set, value)
    IN  IF found # {}
        THEN [idx |-> unwrap(found), is_new |-> FALSE, set |-> set]
        ELSE [idx |-> Len(set), is_new |-> TRUE, set |-> Append(set, value)]

\* A mutant: of the repeats of a text the last one is kept.
from_iter_keep_last(list) ==
    LET indexed == [i \in 1..Len(list) |-> <<i, list[i]>>]
        IsLast(p) == \A j \in (p[1] + 1)..Len(list) : list[j] # p[2]
        kept == SelectSeq(indexed, IsLast)
    IN  [k \in 1..Len(kept) |-> kept[k][2]]

\* FromIterator for IndexSet: every element of the slice is inserted in
\* order, so each text stays where it first occurs and later repeats are
\* dropped.
from_iter(list) ==
    LET indexed == [i \in 1..Len(list) |-> <<i, list[i]>>]
        IsFirst(p) == \A j \in 1..(p[1] - 1) : list[j] # p[2]
        kept == SelectSeq(indexed, IsFirst)
    IN  [k \in 1..Len(kept) |-> kept[k][2]]

\* A mutant: the slice is collected back to front.
collect_reversed(list) ==
    from_iter([i \in 1..Len(list) |-> list[Len(list) + 1 - i]])

\* init.iter().copied().collect()
collect(list) ==
    from_iter(list)

(***************************************************************************)
(* Interner.                                                               *)
(***************************************************************************)
prefill(list) ==
    [arena |-> <<>>, strings |-> collect(list)]

\* A mutant: no lookup before the insertion, every call stores a new entry.
intern_no_lookup(inner, string) ==
    [symbol |-> Len(inner.strings),
     is_new |-> TRUE,
     inner  |-> [arena   |-> Append(inner.arena, string),
                 strings |-> Append(inner.strings, string)]]

\* A mutant: a new entry's handle is taken after the insertion.
intern_off_by_one(inner, string) ==
    LET found == get_index_of(inner.strings, string)
        ins   == insert_full(inner.strings, string)
    IN  IF found # {}
        THEN [symbol |-> unwrap(found), is_new |-> TRUE, inner |-> inner]
        ELSE [symbol |-> Len(ins.set),
              is_new |-> ins.is_new,
              inner  |-> [arena   |-> Append(inner.arena, string),
                          strings |-> ins.set]]

\* Interner::intern on the locked InternerInner: the symbol, the inner
\* after the call, and what debug_assert!(is_new) sees.
intern(inner, string) ==
    LET found == get_index_of(inner.strings, string)
        ins   == insert_full(inner.strings, string)
    IN  IF found # {}
        THEN [symbol |-> unwrap(found), is_new |-> TRUE, inner |-> inner]
        ELSE [symbol |-> ins.idx,
              is_new |-> ins.is_new,
              inner  |-> [arena   |-> Append(inner.arena, string),
                          strings |-> ins.set]]

\* A mutant: the index is read one place too far.
get_off_by_one(inner, symbol) ==
    get_index(inner.strings, symbol + 1)

\* A mutant: an index past the end wraps around instead of giving None.
get_wrapping(inner, symbol) ==
    IF Len(inner.strings) = 0
    THEN {}
    ELSE get_index(inner.strings, symbol % Len(inner.strings))

\* Interner::get before its unwrap(): None is the panic.
get(inner, symbol) ==
    get_index(inner.strings, symbol)

Inner ==
    [arena |-> arena, strings |-> strings]

\* The threads that may call into the interner, and a thread in no call.
Threads ==
    1..MaxThreads

Idle ==
    [pc |-> "idle", name |-> "", arg |-> "", ret |-> {}]

\* The src of a call that resolves no symbol of an earlier call.
NoSrc ==
    [name |-> "", arg |-> 0]

(***************************************************************************)
(* Calls on one interner.                                                  *)
(***************************************************************************)
InternCall(string) ==
    /\ ~panicked
    /\ LET r == intern(Inner, string)
       IN  /\ Len(r.inner.arena) <= MaxNew
           /\ strings' = r.inner.strings
           /\ arena' = r.inner.arena
           /\ panicked' = ~r.is_new
           /\ op' = [name |-> "intern", arg |-> string, src |-> NoSrc,
                     ret |-> IF r.is_new THEN {r.symbol} ELSE {}]
    /\ UNCHANGED <<init, idents, other, threads>>

GetCall(symbol, src) ==
    /\ ~panicked
    /\ LET r == get(Inner, symbol)
       IN  /\ panicked' = (r = {})
           /\ op' = [name |-> "get", arg |-> symbol, src |-> src, ret |-> r]
    /\ UNCHANGED <<init, strings, arena, issued, idents, other, threads>>

(***************************************************************************)
(* TableSpec: an interner prefilled with an arbitrary slice, as in          *)
(* tests::interner_tests, then any sequence of intern and get calls.       *)
(***************************************************************************)
TableTexts ==
    {"dog", "cat", "emu", ""}

PrefillLists ==
    UNION {[1..n -> TableTexts] : n \in 0..MaxInit}

TableInit ==
    /\ init \in PrefillLists
    /\ strings = prefill(init).strings
    /\ arena = prefill(init).arena
    /\ op = [name |-> "prefill", arg |-> Len(init), src |-> NoSrc, ret |-> {}]
    /\ panicked = FALSE
    /\ issued = {}
    /\ idents = <<>>
    /\ other = prefill(<<>>)
    /\ threads = [t \in Threads |-> Idle]

TIntern(string) ==
    /\ InternCall(string)
    /\ issued' = issued \cup {<<string, h>> : h \in op'.ret}

TGet(symbol) ==
    GetCall(symbol, NoSrc)

TableNext ==
    \/ \E string \in TableTexts : TIntern(string)
    \/ \E symbol \in 0..Len(strings) : TGet(symbol)

TableSpec ==
    TableInit /\ [][TableNext]_vars

(***************************************************************************)
(* Properties of one interner (TableSpec).                                 *)
(***************************************************************************)
\* The number of distinct texts of the prefill slice.
K ==
    Cardinality(Range(init))

\* The handle prefill gives a text of the slice: the number of distinct
\* texts that come before its first occurrence.
PrefillHandle(text) ==
    LET first == CHOOSE i \in 1..Len(init) :
                     /\ init[i] = text
                     /\ \A j \in 1..(i - 1) : init[j] # text
    IN  Cardinality({init[j] : j \in 1..(first - 1)})

IsDistinct(list) ==
    \A i, j \in 1..Len(list) : list[i] = list[j] => i = j

\* C1: over the lifetime of one table, intern is a function of the content
\* and injective: equal texts always got the same handle, different texts
\* never the same one, and a prefilled text gets the handle prefill gave it.
C1_InternInjective ==
    /\ \A p, q \in issued : (p[1] = q[1]) <=> (p[2] = q[2])
    /\ \A p \in issued : p[1] \in Range(init) => p[2] = PrefillHandle(p[1])
    /\ \A p \in issued : p[1] \notin Range(init) => p[2] >= K

C1_Witness ==
    /\ \E p \in issued : p[1] \in Range(init)
    /\ \E p, q \in issued : p[1] # q[1] /\ p[1] \notin Range(init)
                               /\ q[1] \notin Range(init)
    /\ op.name = "intern"
    /\ op.arg = arena[1]
    /\ Len(arena) = 2

\* C2: prefill of K pairwise-distinct strings gives the i-th string
\* (from 0) the handle i; interning a prefilled string returns its position
\* and the table holds exactly K entries until new content is interned.
C2_PrefillOrder ==
    IsDistinct(init) =>
        /\ \A i \in 1..Len(init) : get_index_of(strings, init[i]) = {i - 1}
        /\ arena = <<>> => Len(strings) = Len(init)
        /\ \A i \in 1..Len(init) :
               (op.name = "intern" /\ op.arg = init[i]) => op.ret = {i - 1}

C2_Witness ==
    /\ IsDistinct(init)
    /\ Len(init) = 3
    /\ op.name = "intern"
    /\ op.arg = init[3]
    /\ op.ret = {2}
    /\ Len(strings) = 3

\* C3: an intern call with new content returns the number of entries the
\* table held before the call, above every handle issued before and at
\* least K, and adds exactly one entry; a call with present content leaves
\* the table as it was.
C3_DenseMonotonic ==
    [][(op'.name = "intern" /\ op'.ret # {}) =>
          LET h == unwrap(op'.ret)
          IN  IF op'.arg \in Range(strings)
              THEN /\ strings' = strings
                   /\ arena' = arena
                   /\ get_index_of(strings, op'.arg) = {h}
              ELSE /\ h = Len(strings)
                   /\ Len(strings') = Len(strings) + 1
                   /\ SubSeq(strings', 1, Len(strings)) = strings
                   /\ strings'[h + 1] = op'.arg
                   /\ h >= K
                   /\ \A p \in issued : p[2] < h]_vars

C3_Witness ==
    /\ op.name = "intern"
    /\ Len(init) >= 1
    /\ Len(arena) = 2
    /\ op.arg = arena[2]
    /\ op.ret = {Len(strings) - 1}
    /\ \E p \in issued : p[2] = Len(strings) - 2

\* C4: resolving a handle the table issued never fails and yields the text
\* it was issued for, however many intern calls came after.
C4_ResolveInverse ==
    /\ \A p \in issued : get(Inner, p[2]) = {p[1]}
    /\ \A i \in 1..Len(init) : get(Inner, PrefillHandle(init[i])) = {init[i]}
    /\ op.name = "get" =>
          /\ \A p \in issued : p[2] = op.arg => op.ret = {p[1]}
          /\ \A i \in 1..Len(init) :
                 PrefillHandle(init[i]) = op.arg => op.ret = {init[i]}

C4_Witness ==
    /\ op.name = "get"
    /\ Len(arena) = 2
    /\ Len(init) >= 1
    /\ op.arg = Len(strings) - 2
    /\ op.ret = {arena[1]}
    /\ <<arena[1], op.arg>> \in issued
    /\ ~panicked

(***************************************************************************)
(* Keyword symbols (mod kw), their classification, the family            *)
(* constructors and sym::integer.                                          *)
(***************************************************************************)
\* The constant kw::<Name> of the keyword spelled text: its place in the
\* declaration.
KwIndex(text) ==
    unwrap(get_index_of(Keywords, text))

kw_Int == KwIndex("int")

kw_UInt == KwIndex("uint")

kw_Bytes == KwIndex("bytes")

kw_UFixed == KwIndex("ufixed")

kw_After == KwIndex("after")

kw_Var == KwIndex("var")

is_used_keyword(self) ==
    self < kw_After

\* A mutant: the upper border is left out.
is_unused_keyword_exclusive(self) ==
    self >= kw_After /\ self < kw_Var

is_unused_keyword(self) ==
    self >= kw_After /\ self <= kw_Var

is_elementary_type(self) ==
    self >= kw_Int /\ self <= kw_UFixed

kw_Leave == KwIndex("leave")

kw_Builtin == KwIndex("__builtin")

kw_Add == KwIndex("add")

kw_Xor == KwIndex("xor")

kw_Function == KwIndex("function")

kw_Let == KwIndex("let")

kw_If == KwIndex("if")

kw_Switch == KwIndex("switch")

kw_Case == KwIndex("case")

kw_Default == KwIndex("default")

kw_For == KwIndex("for")

kw_Break == KwIndex("break")

kw_Continue == KwIndex("continue")

kw_True == KwIndex("true")

kw_False == KwIndex("false")

kw_Address == KwIndex("address")

kw_Byte == KwIndex("byte")

kw_Return == KwIndex("return")

kw_Revert == KwIndex("revert")

is_weak_keyword(self) ==
    self >= kw_Leave /\ self <= kw_Builtin

\* The symbols the matches! of is_yul_keyword names.
YulKeywords ==
    {kw_Function, kw_Let, kw_If, kw_Switch, kw_Case, kw_Default, kw_For,
     kw_Break, kw_Continue, kw_Leave, kw_True, kw_False}

is_yul_keyword(self) ==
    self \in YulKeywords

\* A mutant: only the range of the builtins declared last is tested.
is_yul_builtin_range_only(self) ==
    self >= kw_Add /\ self <= kw_Xor

is_yul_builtin(self) ==
    \/ (self >= kw_Add /\ self <= kw_Xor)
    \/ self \in {kw_Address, kw_Byte, kw_Return, kw_Revert}

is_reserved(self, yul) ==
    IF yul
    THEN is_yul_keyword(self) \/ is_yul_builtin(self)
    ELSE is_used_keyword(self) \/ is_unused_keyword(self)

is_non_reserved(self, yul) ==
    ~is_reserved(self, yul)

is_bool_lit(self) ==
    self = kw_False \/ self = kw_True

\* A mutant: the first symbol past the prefilled ones is counted in.
is_preinterned_inclusive(self) ==
    self <= PREINTERNED_SYMBOLS_COUNT

is_preinterned(self) ==
    self < PREINTERNED_SYMBOLS_COUNT

\* The largest u8.
U8_MAX == 255

\* A mutant: the size is taken in bits.
kw_int_bits(n) ==
    IF n <= 32 THEN {kw_Int + (n \div 8)} ELSE {}

\* kw::int before its assert!: None is the panic.
kw_int(n) ==
    IF n <= 32 THEN {kw_Int + n} ELSE {}

\* A mutant: the largest size is refused.
kw_uint_exclusive(n) ==
    IF n < 32 THEN {kw_UInt + n} ELSE {}

kw_uint(n) ==
    IF n <= 32 THEN {kw_UInt + n} ELSE {}

\* A mutant: the size 0 is let through.
kw_fixed_bytes_allow_zero(n) ==
    IF n <= 32 THEN {kw_Bytes + n} ELSE {}

kw_fixed_bytes(n) ==
    IF n > 0 /\ n <= 32 THEN {kw_Bytes + n} ELSE {}

\* The decimal digit d as text.
Digit(d) ==
    Digits[d + 1]

\* n.to_string() of an integer: its decimal text.
RECURSIVE to_string(_)
to_string(n) ==
    IF n < 0 THEN "-" \o to_string(-n)
    ELSE IF n < 10 THEN Digit(n)
    ELSE to_string(n \div 10) \o Digit(n % 10)

\* n.try_into(): Ok for the values a usize holds (the inputs of the model
\* stay far below usize::MAX).
try_into_usize(n) ==
    IF n >= 0 THEN {n} ELSE {}

\* A mutant: 10 takes the digit path too.
integer_inclusive(inner, n) ==
    LET idx == try_into_usize(n)
    IN  IF idx # {} /\ unwrap(idx) <= 10
        THEN [symbol |-> SYMBOL_DIGITS_BASE + unwrap(idx),
              is_new |-> TRUE,
              inner  |-> inner]
        ELSE intern(inner, to_string(n))

\* sym::integer on the session's interner.
integer(inner, n) ==
    LET idx == try_into_usize(n)
    IN  IF idx # {} /\ unwrap(idx) < 10
        THEN [symbol |-> SYMBOL_DIGITS_BASE + unwrap(idx),
              is_new |-> TRUE,
              inner  |-> inner]
        ELSE intern(inner, to_string(n))

(***************************************************************************)
(* Spec: one session, its interner prefilled with the symbols! table.      *)
(***************************************************************************)
\* The texts the session interns: keywords at the borders of the groups,
\* a listed symbol, a digit, and texts that are not prefilled.
SessionTexts ==
    {"abstract", "while", "int", "int8", "int64", "bytes32", "ufixed", "wei",
     "true", "after", "var", "leave", "__builtin", "x", "0", "foo"}

Init ==
    /\ init = Fresh
    /\ strings = prefill(Fresh).strings
    /\ arena = prefill(Fresh).arena
    /\ op = [name |-> "prefill", arg |-> Len(Fresh), src |-> NoSrc, ret |-> {}]
    /\ panicked = FALSE
    /\ issued = {}
    /\ idents = <<>>
    /\ other = prefill(<<>>)
    /\ threads = [t \in Threads |-> Idle]

Intern(string) ==
    /\ InternCall(string)
    /\ UNCHANGED issued

\* A call that returns a symbol and leaves the interner alone.
SymbolCall(name, n, result) ==
    /\ ~panicked
    /\ op' = [name |-> name, arg |-> n, src |-> NoSrc, ret |-> result]
    /\ panicked' = (result = {})
    /\ UNCHANGED <<init, strings, arena, issued, idents, other, threads>>

KwInt(n) ==
    SymbolCall("int", n, kw_int(n))

KwUInt(n) ==
    SymbolCall("uint", n, kw_uint(n))

KwFixedBytes(n) ==
    SymbolCall("fixed_bytes", n, kw_fixed_bytes(n))

Integer(n) ==
    /\ ~panicked
    /\ LET r == integer(Inner, n)
       IN  /\ Len(r.inner.arena) <= MaxNew
           /\ strings' = r.inner.strings
           /\ arena' = r.inner.arena
           /\ panicked' = ~r.is_new
           /\ op' = [name |-> "integer", arg |-> n, src |-> NoSrc,
                     ret |-> IF r.is_new THEN {r.symbol} ELSE {}]
    /\ UNCHANGED <<init, issued, idents, other, threads>>

\* Symbol::as_str of the symbol the last call returned.
AsStr ==
    /\ op.name \in {"intern", "int", "uint", "fixed_bytes", "integer"}
    /\ \E symbol \in op.ret : GetCall(symbol, [name |-> op.name, arg |-> op.arg])

Next ==
    \/ \E string \in SessionTexts : Intern(string)
    \/ \E n \in (0 - MaxNeg)..MaxInteger : Integer(n)
    \/ AsStr

Spec ==
    Init /\ [][Next]_vars

(***************************************************************************)
(* KwSpec: a session that calls the family constructors with every u8,     *)
(* resolves what they return, and interns around them.                     *)
(***************************************************************************)
KwTexts ==
    {"int8", "foo"}

KwNext ==
    \/ \E n \in 0..U8_MAX : KwInt(n)
    \/ \E n \in 0..U8_MAX : KwUInt(n)
    \/ \E n \in 0..U8_MAX : KwFixedBytes(n)
    \/ \E string \in KwTexts : Intern(string)
    \/ AsStr

KwSpec ==
    Init /\ [][KwNext]_vars

(***************************************************************************)
(* Properties of the family constructors (KwSpec).                         *)
(***************************************************************************)
\* C5 as stated: int(0) resolves to "int", int(8) resolves to "int8", and
\* int(33) aborts.
C5_Original ==
    /\ (op.name = "get" /\ op.src.name = "int" /\ op.src.arg = 0)
           => op.ret = {"int"}
    /\ (op.name = "get" /\ op.src.name = "int" /\ op.src.arg = 8)
           => op.ret = {"int8"}
    /\ (op.name = "int" /\ op.arg = 33) => panicked

\* C5, amended: int(0) resolves to "int", int(8) resolves to "int64" (the
\* size is in bytes: it is int(1) that resolves to "int8"), and int(33)
\* aborts.
C5_IntExamples ==
    /\ (op.name = "get" /\ op.src.name = "int" /\ op.src.arg = 0)
           => op.ret = {"int"}
    /\ (op.name = "get" /\ op.src.name = "int" /\ op.src.arg = 8)
           => op.ret = {"int64"}
    /\ (op.name = "get" /\ op.src.name = "int" /\ op.src.arg = 1)
           => op.ret = {"int8"}
    /\ (op.name = "int" /\ op.arg = 33) => (panicked /\ op.ret = {})
    /\ (op.name = "int" /\ op.arg \in {0, 1, 8}) => (~panicked /\ op.ret # {})

C5_Witness ==
    /\ op.name = "get"
    /\ op.src.name = "int"
    /\ op.src.arg = 8
    /\ op.ret = {"int64"}

\* C6: int(n) and uint(n) take bytes: for n in 1..32 they resolve to "int"
\* and "uint" followed by the decimal of 8*n, for 0 to the unsized "int" and
\* "uint", and for every n above 32 they abort and return no symbol.
C6_ByteSizes ==
    /\ op.name \in {"int", "uint"} =>
          /\ panicked <=> op.arg > 32
          /\ op.ret = {} <=> op.arg > 32
    /\ (op.name = "get" /\ op.src.name \in {"int", "uint"}) =>
          /\ op.src.arg \in 0..32
          /\ op.ret = {IF op.src.arg = 0
                       THEN op.src.name
                       ELSE op.src.name \o to_string(8 * op.src.arg)}

C6_Witness ==
    /\ op.name = "get"
    /\ op.src.name = "uint"
    /\ op.src.arg = 32
    /\ op.ret = {"uint256"}

\* The texts of the bytesN family.
FixedBytesTexts ==
    {"bytes" \o to_string(k) : k \in 1..32}

\* C7: fixed_bytes(n) resolves to "bytes" followed by the decimal of n for
\* n in 1..32 and aborts for 0 and for every n above 32: it never returns
\* the unsized "bytes" or a symbol outside the family.
C7_FixedBytes ==
    /\ op.name = "fixed_bytes" =>
          /\ panicked <=> (op.arg = 0 \/ op.arg > 32)
          /\ op.ret = {} <=> (op.arg = 0 \/ op.arg > 32)
          /\ \A h \in op.ret :
                 /\ h # kw_Bytes
                 /\ get(Inner, h) # {}
                 /\ get(Inner, h) \subseteq FixedBytesTexts
    /\ (op.name = "get" /\ op.src.name = "fixed_bytes") =>
          /\ op.src.arg \in 1..32
          /\ op.ret = {"bytes" \o to_string(op.src.arg)}

C7_Witness ==
    /\ op.name = "get"
    /\ op.src.name = "fixed_bytes"
    /\ op.src.arg = 32
    /\ op.ret = {"bytes32"}

(***************************************************************************)
(* Properties of the session's interner (Spec).                            *)
(***************************************************************************)
\* C8: integer(n) returns a symbol that resolves to the decimal text of n:
\* for 0 <= n < 10 the digit symbol SYMBOL_DIGITS_BASE + n, with no entry
\* added; for every other n the handle intern gives the decimal text.
C8_Integer ==
    [][op'.name = "integer" =>
          LET n == op'.arg
              after == [arena |-> arena', strings |-> strings']
          IN  /\ ~panicked'
              /\ op'.ret # {}
              /\ get(after, unwrap(op'.ret)) = {to_string(n)}
              /\ IF 0 <= n /\ n < 10
                 THEN /\ op'.ret = {SYMBOL_DIGITS_BASE + n}
                      /\ strings' = strings
                      /\ arena' = arena
                 ELSE /\ op'.ret = {intern(Inner, to_string(n)).symbol}
                      /\ after = intern(Inner, to_string(n)).inner
                      /\ op'.ret = get_index_of(strings', to_string(n))]_vars

C8_Witness ==
    /\ op.name = "get"
    /\ op.src.name = "integer"
    /\ op.src.arg = 0 - 1
    /\ op.ret = {"-1"}
    /\ Len(arena) = 2
    /\ arena[1] = "10"

\* C9: in the prefilled table every keyword of the elementary-type group
\* (Int..UFixed) is an elementary type and a used keyword, and every keyword
\* of the reserved group (After..Var) is an unused and not a used keyword.
C9_Groups ==
    /\ \A text \in Range(KwTypes) :
           /\ get_index_of(strings, text) # {}
           /\ \A h \in get_index_of(strings, text) :
                  is_elementary_type(h) /\ is_used_keyword(h)
    /\ \A text \in Range(KwReserved) :
           /\ get_index_of(strings, text) # {}
           /\ \A h \in get_index_of(strings, text) :
                  is_unused_keyword(h) /\ ~is_used_keyword(h)
    /\ (op.name = "intern" /\ op.arg \in Range(KwTypes)) =>
           /\ op.ret # {}
           /\ \A h \in op.ret : is_elementary_type(h) /\ is_used_keyword(h)
    /\ (op.name = "intern" /\ op.arg \in Range(KwReserved)) =>
           /\ op.ret # {}
           /\ \A h \in op.ret : is_unused_keyword(h) /\ ~is_used_keyword(h)

C9_Witness ==
    /\ op.name = "intern"
    /\ op.arg = "var"
    /\ op.ret = {kw_Var}
    /\ is_unused_keyword(kw_Var)
    /\ Len(arena) = 1

(***************************************************************************)
(* Ident: a symbol and a span.  A span is a location number; a hasher is   *)
(* the sequence of the words written to it.                                *)
(***************************************************************************)
Span_DUMMY == 0

Ident_new(name, span) ==
    [name |-> name, span |-> span]

Ident_with_dummy_span(name) ==
    Ident_new(name, Span_DUMMY)

\* The derived Ord and Hash of Symbol: those of its index.
Symbol_cmp(a, b) ==
    IF a < b THEN "Less" ELSE IF a = b THEN "Equal" ELSE "Greater"

Symbol_hash(state, self) ==
    Append(state, self)

\* A mutant: the span takes part, as a derived PartialEq would have it.
Ident_eq_with_span(self, rhs) ==
    self.name = rhs.name /\ self.span = rhs.span

Ident_eq(self, rhs) ==
    self.name = rhs.name

Ident_cmp(self, rhs) ==
    Symbol_cmp(self.name, rhs.name)

Ident_partial_cmp(self, rhs) ==
    {Ident_cmp(self, rhs)}

Ident_hash(state, self) ==
    Symbol_hash(state, self.name)

(***************************************************************************)
(* IdentSpec: a session that builds identifiers from text.                 *)
(***************************************************************************)
IdentTexts ==
    {"foo", "bar", "int", "x"}

\* Ident::from_str and Ident::from_str_and_span: intern the text in the
\* session's interner and wrap the symbol with the span.
IdentCall(name, string, span) ==
    /\ ~panicked
    /\ Len(idents) < MaxIdents
    /\ LET r == intern(Inner, string)
           ident == IF span = Span_DUMMY
                    THEN Ident_with_dummy_span(r.symbol)
                    ELSE Ident_new(r.symbol, span)
       IN  /\ Len(r.inner.arena) <= MaxNew
           /\ strings' = r.inner.strings
           /\ arena' = r.inner.arena
           /\ panicked' = ~r.is_new
           /\ op' = [name |-> name, arg |-> string, src |-> NoSrc,
                     ret |-> IF r.is_new THEN {ident} ELSE {}]
           /\ idents' = IF r.is_new
                        THEN Append(idents, [ident |-> ident, text |-> string])
                        ELSE idents
    /\ UNCHANGED <<init, issued, other, threads>>

FromStr(string) ==
    IdentCall("from_str", string, Span_DUMMY)

FromStrAndSpan(string, span) ==
    IdentCall("from_str_and_span", string, span)

IdentNext ==
    \/ \E string \in IdentTexts : FromStr(string)
    \/ \E string \in IdentTexts, span \in 1..MaxSpan :
           FromStrAndSpan(string, span)

IdentSpec ==
    Init /\ [][IdentNext]_vars

\* C10: equality, ordering and hash of identifiers are those of their
\* symbols and ignore the span: identifiers built from equal text are
\* equal, compare Equal and hash alike wherever they are; identifiers built
\* from different text are not equal.
C10_IdentIdentity ==
    \A i, j \in 1..Len(idents) :
        LET a == idents[i].ident
            b == idents[j].ident
        IN  /\ Ident_eq(a, b) <=> (a.name = b.name)
            /\ Ident_cmp(a, b) = Symbol_cmp(a.name, b.name)
            /\ Ident_partial_cmp(a, b) = {Symbol_cmp(a.name, b.name)}
            /\ Ident_hash(<<>>, a) = Symbol_hash(<<>>, a.name)
            /\ idents[i].text = idents[j].text =>
                   /\ Ident_eq(a, b)
                   /\ Ident_cmp(a, b) = "Equal"
                   /\ Ident_hash(<<>>, a) = Ident_hash(<<>>, b)
            /\ idents[i].text # idents[j].text =>
                   /\ ~Ident_eq(a, b)
                   /\ Ident_cmp(a, b) # "Equal"

C10_Witness ==
    /\ Len(idents) = 2
    /\ idents[1].text = "foo"
    /\ idents[2].text = "foo"
    /\ idents[1].ident.span # idents[2].ident.span
    /\ Ident_eq(idents[1].ident, idents[2].ident)
    /\ op.name = "from_str_and_span"

(***************************************************************************)
(* Prefill of a slice with repeats (TableSpec).                            *)
(***************************************************************************)
\* The place (from 1) where the text first occurs in the prefill slice.
FirstOccurrence(text) ==
    CHOOSE i \in 1..Len(init) :
        /\ init[i] = text
        /\ \A j \in 1..(i - 1) : init[j] # text

\* C14 as stated: with a repeat in the slice, every string has the handle
\* equal to the place of its first occurrence, and strings interned later
\* get handles of at least len(ordered_strings).
C14_Original ==
    ~IsDistinct(init) =>
        /\ \A i \in 1..Len(init) :
               get_index_of(strings, init[i]) = {FirstOccurrence(init[i]) - 1}
        /\ \A p \in issued : p[1] \notin Range(init) => p[2] >= Len(init)

\* C14, amended: with a repeat in the slice, the repeats collapse into one
\* handle, and the handle of every string is the number of distinct strings
\* before its first occurrence (below its place in the slice once a repeat
\* came before it); the table holds K < len(ordered_strings) entries, K
\* the number of distinct strings, and the first string interned
\* afterwards gets the handle K, later ones handles above K.
C14_PrefillRepeats ==
    ~IsDistinct(init) =>
        /\ \A i \in 1..Len(init) :
               /\ get_index_of(strings, init[i]) = {PrefillHandle(init[i])}
               /\ PrefillHandle(init[i]) <= FirstOccurrence(init[i]) - 1
        /\ K < Len(init)
        /\ Len(strings) = K + Len(arena)
        /\ \A p \in issued : p[1] \notin Range(init) => p[2] >= K
        /\ \A k \in 1..Len(arena) : <<arena[k], K + k - 1>> \in issued

C14_Witness ==
    /\ Len(init) = 3
    /\ init[1] = init[2]
    /\ init[3] # init[1]
    /\ get_index_of(strings, init[3]) = {1}
    /\ op.name = "intern"
    /\ op.arg \notin Range(init)
    /\ op.ret = {2}

(***************************************************************************)
(* ClassifySpec: a session that interns texts and asks the classification  *)
(* predicates about symbols.                                               *)
(***************************************************************************)
\* The predicates of Symbol that hold of the symbol, by name
\* (is_reserved(true) as "reserved_yul", is_reserved(false) as "reserved").
Classes(self) ==
    {c \in {"used_keyword", "unused_keyword", "weak_keyword", "yul_keyword",
            "yul_builtin", "reserved_yul", "reserved", "elementary_type",
            "bool_lit", "preinterned"} :
        \/ c = "used_keyword" /\ is_used_keyword(self)
        \/ c = "unused_keyword" /\ is_unused_keyword(self)
        \/ c = "weak_keyword" /\ is_weak_keyword(self)
        \/ c = "yul_keyword" /\ is_yul_keyword(self)
        \/ c = "yul_builtin" /\ is_yul_builtin(self)
        \/ c = "reserved_yul" /\ is_reserved(self, TRUE)
        \/ c = "reserved" /\ is_reserved(self, FALSE)
        \/ c = "elementary_type" /\ is_elementary_type(self)
        \/ c = "bool_lit" /\ is_bool_lit(self)
        \/ c = "preinterned" /\ is_preinterned(self)}

ClassifyTexts ==
    {"while", "ufixed", "true", "var", "return", "let", "__builtin", "x",
     "9", "foo", "bar"}

ClassifyCall(symbol, src) ==
    /\ ~panicked
    /\ op' = [name |-> "classify", arg |-> symbol, src |-> src,
              ret |-> Classes(symbol)]
    /\ UNCHANGED <<init, strings, arena, panicked, issued, idents, other,
                   threads>>

\* The predicates asked about any handle of the table, or the one past it.
Classify(symbol) ==
    ClassifyCall(symbol, NoSrc)

\* The predicates asked about the symbol the last intern returned.
ClassifyInterned ==
    /\ op.name = "intern"
    /\ \E symbol \in op.ret :
           ClassifyCall(symbol, [name |-> op.name, arg |-> op.arg])

ClassifyNext ==
    \/ \E string \in ClassifyTexts : Intern(string)
    \/ \E symbol \in 0..Len(strings) : Classify(symbol)
    \/ ClassifyInterned

ClassifySpec ==
    Init /\ [][ClassifyNext]_vars

\* The handles of the table and the one past them.
Handles ==
    0..Len(strings)

IsInterval(S) ==
    \A h \in S : (h - 1 \in S) \/ (\A g \in S : g >= h)

UsedKeywordSet ==
    {h \in Handles : is_used_keyword(h)}

UnusedKeywordSet ==
    {h \in Handles : is_unused_keyword(h)}

WeakKeywordSet ==
    {h \in Handles : is_weak_keyword(h)}

ElementaryTypeSet ==
    {h \in Handles : is_elementary_type(h)}

YulKeywordSet ==
    {h \in Handles : is_yul_keyword(h)}

YulBuiltinSet ==
    {h \in Handles : is_yul_builtin(h)}

\* C13 as stated: the handles for which each of the six predicates holds
\* form one contiguous interval.
C13_Original ==
    /\ IsInterval(UsedKeywordSet)
    /\ IsInterval(UnusedKeywordSet)
    /\ IsInterval(WeakKeywordSet)
    /\ IsInterval(ElementaryTypeSet)
    /\ IsInterval(YulKeywordSet)
    /\ IsInterval(YulBuiltinSet)

\* C13, amended: is_used_keyword, is_unused_keyword, is_weak_keyword and
\* is_elementary_type each hold on one contiguous, non-empty interval of
\* prefilled handles.  is_yul_builtin holds on the interval Add..Xor and on
\* four handles named one by one: Revert, right below Add, and Address,
\* Byte and Return, apart from it further down; is_yul_keyword holds on
\* twelve handles named one by one; neither set is an interval.
C13_Ranges ==
    /\ UsedKeywordSet = 0..(kw_After - 1)
    /\ UnusedKeywordSet = kw_After..kw_Var
    /\ WeakKeywordSet = kw_Leave..kw_Builtin
    /\ ElementaryTypeSet = kw_Int..kw_UFixed
    /\ \A S \in {UsedKeywordSet, UnusedKeywordSet, WeakKeywordSet,
                 ElementaryTypeSet} :
           /\ S # {}
           /\ IsInterval(S)
           /\ \A h \in S : is_preinterned(h)
    /\ YulBuiltinSet = (kw_Add..kw_Xor)
                           \cup {kw_Address, kw_Byte, kw_Return, kw_Revert}
    /\ kw_Revert = kw_Add - 1
    /\ \A h \in {kw_Address, kw_Byte, kw_Return} : h < kw_Revert - 1
    /\ ~IsInterval(YulBuiltinSet)
    /\ YulKeywordSet = YulKeywords
    /\ Cardinality(YulKeywordSet) = 12
    /\ ~IsInterval(YulKeywordSet)
    /\ op.name = "classify" =>
           /\ "weak_keyword" \in op.ret <=> op.arg \in kw_Leave..kw_Builtin
           /\ "yul_builtin" \in op.ret <=> op.arg \in YulBuiltinSet
           /\ "yul_keyword" \in op.ret <=> op.arg \in YulKeywords

C13_Witness ==
    /\ op.name = "classify"
    /\ op.src.name = "intern"
    /\ op.src.arg = "return"
    /\ op.arg = kw_Return
    /\ "yul_builtin" \in op.ret
    /\ op.arg + 1 \notin YulBuiltinSet
    /\ op.arg < kw_Add

\* The prefilled texts.
FreshTexts ==
    Range(Fresh)

\* C15: a text outside the prefilled set is never classified: the symbol
\* intern returns for it is not preinterned and satisfies none of the
\* predicates (is_reserved for neither yul value); the symbol intern returns
\* for a prefilled text is preinterned.
C15_OnlyPrefilledClassified ==
    /\ \A h \in 0..(Len(strings) - 1) :
           IF strings[h + 1] \in FreshTexts
           THEN "preinterned" \in Classes(h)
           ELSE Classes(h) = {}
    /\ (op.name = "intern" /\ op.ret # {}) =>
           IF op.arg \in FreshTexts
           THEN is_preinterned(unwrap(op.ret))
           ELSE Classes(unwrap(op.ret)) = {}
    /\ (op.name = "classify" /\ op.src.name = "intern") =>
           IF op.src.arg \in FreshTexts
           THEN "preinterned" \in op.ret
           ELSE op.ret = {}

C15_Witness ==
    /\ op.name = "classify"
    /\ op.src.name = "intern"
    /\ op.src.arg = "bar"
    /\ op.ret = {}
    /\ Len(arena) = 2
    /\ arena[1] = "foo"
    /\ op.arg = PREINTERNED_SYMBOLS_COUNT + 1

(***************************************************************************)
(* Two interners (ForeignSpec): a symbol the second interner returned is   *)
(* resolved by the first.  A Symbol is a bare u32 (line 171), so the       *)
(* first interner sees only the index.                                     *)
(***************************************************************************)
\* intern() on the second interner.
OtherIntern(string) ==
    /\ ~panicked
    /\ LET r == intern(other, string)
       IN  /\ Len(r.inner.arena) <= MaxNew
           /\ other' = r.inner
           /\ panicked' = ~r.is_new
           /\ op' = [name |-> "intern_other", arg |-> string, src |-> NoSrc,
                     ret |-> IF r.is_new THEN {r.symbol} ELSE {}]
    /\ UNCHANGED <<init, strings, arena, issued, idents, threads>>

\* get() on the first interner of the symbol the second has just returned.
ForeignGet ==
    /\ op.name = "intern_other"
    /\ \E symbol \in op.ret :
           GetCall(symbol, [name |-> "intern_other", arg |-> op.arg])

ForeignNext ==
    \/ \E string \in TableTexts : OtherIntern(string)
    \/ ForeignGet
    \/ \E symbol \in 0..Len(strings) : TGet(symbol)

ForeignSpec ==
    TableInit /\ [][ForeignNext]_vars

\* C11 as stated: get() of a symbol whose index is out of range, or that
\* the other interner returned, panics and returns no text.
C11_Original ==
    (/\ op.name = "get"
     /\ \/ op.arg >= Len(strings)
        \/ op.src.name = "intern_other")
        => (panicked /\ op.ret = {})

\* C11, amended: get() panics exactly when the symbol's index is out of
\* range for the interner, and then returns no text; a symbol the other
\* interner returned whose index is in range is not told apart from the
\* interner's own, and get() returns the interner's text at that index.
C11_ResolveAborts ==
    op.name = "get" =>
        /\ panicked <=> (op.arg >= Len(strings))
        /\ op.arg >= Len(strings) => op.ret = {}
        /\ op.arg < Len(strings) => op.ret = {strings[op.arg + 1]}

\* The undetected case: the second interner returned symbol 0 for "cat",
\* and the first interner's get(0) returned its own "dog".
C11_Witness ==
    /\ op.name = "get"
    /\ op.src = [name |-> "intern_other", arg |-> "cat"]
    /\ op.arg = 0
    /\ strings = <<"dog">>
    /\ ~panicked
    /\ op.ret = {"dog"}

(***************************************************************************)
(* Several threads on one interner (ConcSpec).  Interner is a              *)
(* Lock<InternerInner> (line 323): a call takes the lock, works on the     *)
(* inner value through the guard, and gives the lock back when the guard   *)
(* is dropped.  Each thread is at one place of one call:                   *)
(*   "idle"    in no call (name, arg, ret are those of its last call)      *)
(*   "lock"    at self.0.lock(), not yet through                           *)
(*   "lookup"  in intern, before get_index_of                              *)
(*   "insert"  in intern, get_index_of gave None, before alloc_str         *)
(*   "get"     in get, before get_index                                    *)
(***************************************************************************)
\* A mutant: the guard is dropped once the lookup is over.
GuardScope_lookup_only ==
    {"lookup"}

\* The places of intern at which its guard `inner` is alive: from the let
\* of line 345 to the end of the function body.
GuardScope ==
    {"lookup", "insert"}

\* The places of get at which its guard is alive: the temporary of
\* self.0.lock() lives to the end of the statement.
GetGuardScope ==
    {"get"}

Holds(t) ==
    threads[t].pc \in GuardScope \cup GetGuardScope

\* Lock::lock() goes through when no guard of the lock is alive.
LockFree ==
    \A t \in Threads : ~Holds(t)

ConcTexts ==
    {"dog", "cat"}

ConcPrefill ==
    {<<>>, <<"dog">>}

ConcInit ==
    /\ init \in ConcPrefill
    /\ strings = prefill(init).strings
    /\ arena = prefill(init).arena
    /\ op = [name |-> "prefill", arg |-> Len(init), src |-> NoSrc, ret |-> {}]
    /\ panicked = FALSE
    /\ issued = {}
    /\ idents = <<>>
    /\ other = prefill(<<>>)
    /\ threads = [t \in Threads |-> Idle]

\* Thread t calls intern(string).
CallIntern(t, string) ==
    /\ ~panicked
    /\ threads[t].pc = "idle"
    /\ threads' = [threads EXCEPT ![t] =
                       [pc |-> "lock", name |-> "intern", arg |-> string,
                        ret |-> {}]]
    /\ UNCHANGED <<init, strings, arena, op, panicked, issued, idents, other>>

\* Thread t calls get(symbol).
CallGet(t, symbol) ==
    /\ ~panicked
    /\ threads[t].pc = "idle"
    /\ threads' = [threads EXCEPT ![t] =
                       [pc |-> "lock", name |-> "get", arg |-> symbol,
                        ret |-> {}]]
    /\ UNCHANGED <<init, strings, arena, op, panicked, issued, idents, other>>

\* self.0.lock() of thread t returns the guard.
Acquire(t) ==
    /\ ~panicked
    /\ threads[t].pc = "lock"
    /\ LockFree
    /\ threads' = [threads EXCEPT ![t].pc =
                       IF threads[t].name = "intern" THEN "lookup" ELSE "get"]
    /\ UNCHANGED <<init, strings, arena, op, panicked, issued, idents, other>>

\* intern, lines 346-348: the early return when the string is there.
Lookup(t) ==
    /\ ~panicked
    /\ threads[t].pc = "lookup"
    /\ LET found == get_index_of(strings, threads[t].arg)
       IN  IF found # {}
           THEN /\ threads' = [threads EXCEPT ![t].pc = "idle",
                                              ![t].ret = found]
                /\ issued' = issued \cup {<<threads[t].arg, h>> : h \in found}
           ELSE /\ threads' = [threads EXCEPT ![t].pc = "insert"]
                /\ UNCHANGED issued
    /\ UNCHANGED <<init, strings, arena, op, panicked, idents, other>>

\* intern, lines 350-362: alloc_str, insert_full, debug_assert!(is_new).
Insert(t) ==
    /\ ~panicked
    /\ threads[t].pc = "insert"
    /\ LET ins == insert_full(strings, threads[t].arg)
       IN  /\ strings' = ins.set
           /\ arena' = Append(arena, threads[t].arg)
           /\ panicked' = ~ins.is_new
           /\ threads' = [threads EXCEPT
                              ![t].pc = "idle",
                              ![t].ret = IF ins.is_new THEN {ins.idx} ELSE {}]
           /\ issued' = IF ins.is_new
                        THEN issued \cup {<<threads[t].arg, ins.idx>>}
                        ELSE issued
    /\ UNCHANGED <<init, op, idents, other>>

\* get, line 369: get_index(symbol).unwrap().
ConcGet(t) ==
    /\ ~panicked
    /\ threads[t].pc = "get"
    /\ LET r == get(Inner, threads[t].arg)
       IN  /\ panicked' = (r = {})
           /\ threads' = [threads EXCEPT ![t].pc = "idle", ![t].ret = r]
    /\ UNCHANGED <<init, strings, arena, op, issued, idents, other>>

\* The symbols a thread can hold: those of the prefill slice and those an
\* intern call has returned.
Held ==
    0..(Len(prefill(init).strings) - 1) \cup {p[2] : p \in issued}

ConcNext ==
    \E t \in Threads :
        \/ \E string \in ConcTexts : CallIntern(t, string)
        \/ \E symbol \in Held : CallGet(t, symbol)
        \/ Acquire(t)
        \/ Lookup(t)
        \/ Insert(t)
        \/ ConcGet(t)

ConcSpec ==
    ConcInit /\ [][ConcNext]_vars

Done(t, name) ==
    /\ threads[t].pc = "idle"
    /\ threads[t].name = name

\* C12: with threads interleaving intern and get on one interner, at most
\* one thread is inside a call's locked part; the is_new assertion never
\* fails and no string is stored twice; two finished intern calls returned
\* the same symbol exactly when they were given the same string; and a get
\* returns the string for which its symbol was returned by intern.
C12_Concurrent ==
    /\ ~panicked
    /\ Cardinality({t \in Threads : Holds(t)}) <= 1
    /\ IsDistinct(strings)
    /\ arena = SubSeq(strings, Len(strings) - Len(arena) + 1, Len(strings))
    /\ \A t, u \in Threads :
           (Done(t, "intern") /\ Done(u, "intern")) =>
               /\ threads[t].ret # {}
               /\ (threads[t].arg = threads[u].arg) <=>
                      (threads[t].ret = threads[u].ret)
    /\ \A p, q \in issued : (p[1] = q[1]) <=> (p[2] = q[2])
    /\ \A p \in issued : get(Inner, p[2]) = {p[1]}
    /\ \A t \in Threads :
           Done(t, "get") =>
               \A p \in issued :
                   p[2] = threads[t].arg => threads[t].ret = {p[1]}

\* Two intern calls of the same new string in flight: thread 1 holds the
\* lock, its lookup of "cat" found nothing and it is about to insert, while
\* thread 2 waits at the lock with "cat" as well.
C12_Witness ==
    /\ init = <<"dog">>
    /\ threads[1] = [pc |-> "insert", name |-> "intern", arg |-> "cat",
                     ret |-> {}]
    /\ threads[2] = [pc |-> "lock", name |-> "intern", arg |-> "cat",
                     ret |-> {}]
    /\ strings = <<"dog">>
    /\ ~panicked

====
